---- MODULE Spec2Model ----
(***************************************************************************)
(* The data-preparation pipeline of snowdroughtindex/core/                 *)
(* data_preparation.py as a state machine.  One caller invokes one         *)
(* pipeline function at a time; a call runs from its entry (the statements *)
(* before the try block and the creation of the progress tracker) through  *)
(* its numbered steps or its per-station loop to a return or a raise.      *)
(*                                                                         *)
(* Geometry is one-dimensional: a point is an integer position, a polygon  *)
(* a closed interval [lo, hi] of positions given in kilometres.            *)
(***************************************************************************)
EXTENDS Integers, Sequences, FiniteSets, TLC

VARIABLES
    fn,        \* the pipeline function being executed, "idle" before the call
    pc,        \* position inside the function body
    args,      \* the caller-owned input structures (mutated in place by some calls)
    args0,     \* the caller's inputs as they were when the call was made
    loc,       \* the function's local variables
    progress_tracker, \* the ProgressTracker of the call
    outcome,   \* "none" while running, then "returned" or "raised"
    err,       \* the exception that left the function
    result     \* the returned value

vars == <<fn, pc, args, args0, loc, progress_tracker, outcome, err, result>>

(***************************************************************************)
(* Bounds of the model.                                                    *)
(***************************************************************************)
NStations == 2
MaxRows == 2
MaxCoordRows == 2
MaxHourlyRows == 2
MaxListLen == 2
MaxBasins == 2
MaxGeoms == 2
MaxTimes == 2
FloatBits == 8

StationIds == 1..NStations

\* Sequences over S of length at most n.
SeqsUpTo(S, n) == UNION {[1..k -> S] : k \in 0..n}

\* Index set of a sequence.
Idx(s) == 1..Len(s)

\* pandas Series.unique(): the distinct values in order of first appearance.
RECURSIVE unique(_)
unique(s) ==
    IF s = <<>> THEN <<>>
    ELSE LET front == unique(SubSeq(s, 1, Len(s) - 1))
             last == s[Len(s)]
         IN IF \E i \in Idx(front) : front[i] = last THEN front
            ELSE Append(front, last)

\* pd.concat(frames, ignore_index=True) of a non-empty list of tables.
RECURSIVE concat(_)
concat(frames) == IF frames = <<>> THEN <<>> ELSE frames[1] \o concat(Tail(frames))

\* The column station_id of a table.
station_id_column(rows) == [i \in Idx(rows) |-> rows[i].station_id]

(***************************************************************************)
(* Exceptions and results.                                                 *)
(***************************************************************************)
NoError == [type |-> "none"]
NoResult == [has |-> FALSE]
Returned(v) == [has |-> TRUE, val |-> v]

\* raise <type>(<msg>) reaching the caller as raised.
Exc(type, msg) == [type |-> type, msg |-> msg, wrapped |-> FALSE]

\* except Exception as e: raise RuntimeError(f"<prefix>: {str(e)}")
WrapRuntimeError(prefix, e) ==
    [type |-> "RuntimeError", msg |-> e.msg, prefix |-> prefix,
     wrapped |-> TRUE, original |-> e.type]

(***************************************************************************)
(* The progress tracker (snowdroughtindex.utils.progress.ProgressTracker): *)
(* created with a total, advanced by update, closed by close.              *)
(***************************************************************************)
NoTracker == [created |-> FALSE, total |-> 0, n |-> 0, closed |-> FALSE]
ProgressTracker(total) == [created |-> TRUE, total |-> total, n |-> 0, closed |-> FALSE]
\* A faulty tracker that counts every reported step twice.
tracker_update_twice(t, k) == [t EXCEPT !.n = @ + 2 * k]
tracker_update(t, k) == [t EXCEPT !.n = @ + k]
tracker_close(t) == [t EXCEPT !.closed = TRUE]

\* A faulty handler that re-raises without closing the tracker.
except_Exception_tracker_left_open(t, prefix, e) ==
    /\ progress_tracker' = t
    /\ outcome' = "raised"
    /\ err' = WrapRuntimeError(prefix, e)
    /\ result' = NoResult

\* The handler every try block of the module ends with; t is the tracker as
\* the failing statement found it.
except_Exception(t, prefix, e) ==
    /\ progress_tracker' = tracker_close(t)
    /\ outcome' = "raised"
    /\ err' = WrapRuntimeError(prefix, e)
    /\ result' = NoResult

\* An exception raised outside any try block leaves the function as it is.
raise_unhandled(e) ==
    /\ outcome' = "raised"
    /\ err' = e
    /\ result' = NoResult

return(v) ==
    /\ outcome' = "returned"
    /\ err' = NoError
    /\ result' = Returned(v)

Running(f) == fn = f /\ outcome = "none"

Init ==
    /\ fn = "idle"
    /\ pc = "idle"
    /\ args = [none |-> TRUE]
    /\ args0 = [none |-> TRUE]
    /\ loc = [none |-> TRUE]
    /\ progress_tracker = NoTracker
    /\ outcome = "none"
    /\ err = NoError
    /\ result = NoResult

\* The caller makes a call: the arguments are bound, nothing has run yet.
Enter(f, a) ==
    /\ fn' = f
    /\ args0' = a

(***************************************************************************)
(* update_coordinates, table variant.                                      *)
(***************************************************************************)
LatValues == {10}
LonValues == {20}
NewLatValues == {51}
NewLonValues == {-114, -115}

CoordTableRows == [station_id : StationIds, lat : LatValues, lon : LonValues]
CoordUpdateRows == [station_id : StationIds, New_Lat : NewLatValues, New_Lon : NewLonValues]

\* coordinates_df.set_index(id_col)[[lat_col, lon_col]].to_dict('index') raises
\* ValueError when the index is not unique.
index_is_unique(coordinates_df) ==
    \A i, j \in Idx(coordinates_df) :
        coordinates_df[i].station_id = coordinates_df[j].station_id => i = j

coord_map(coordinates_df) ==
    [s \in {coordinates_df[i].station_id : i \in Idx(coordinates_df)} |->
        LET e == CHOOSE i \in Idx(coordinates_df) : coordinates_df[i].station_id = s
        IN [New_Lat |-> coordinates_df[e].New_Lat, New_Lon |-> coordinates_df[e].New_Lon]]

\* A faulty update that writes the new coordinates without the station mask.
set_station_coordinates_nomask(rows, sid, entry) ==
    [i \in Idx(rows) |->
        [rows[i] EXCEPT !.lat = entry.New_Lat, !.lon = entry.New_Lon]]

\* data.loc[mask, 'lat'] = ...; data.loc[mask, 'lon'] = ... with
\* mask = data['station_id'] == station_id
set_station_coordinates(rows, sid, entry) ==
    [i \in Idx(rows) |->
        IF rows[i].station_id = sid
        THEN [rows[i] EXCEPT !.lat = entry.New_Lat, !.lon = entry.New_Lon]
        ELSE rows[i]]

\* Lines 468-482 (and 544-545): dispatch on the type of data, build the lookup,
\* list the stations, create the tracker.
Call_update_coordinates ==
    /\ fn = "idle"
    /\ \E kind \in {"DataFrame", "other"},
       rows \in SeqsUpTo(CoordTableRows, MaxRows),
       coordinates_df \in SeqsUpTo(CoordUpdateRows, MaxCoordRows) :
        LET a == [data |-> [kind |-> kind, rows |-> rows], coordinates_df |-> coordinates_df] IN
        /\ kind = "other" => rows = <<>> /\ coordinates_df = <<>>
        /\ Enter("update_coordinates", a)
        /\ args' = a
        /\ IF kind = "other"
           THEN /\ raise_unhandled(Exc("TypeError", "Data must be a pandas DataFrame or xarray Dataset"))
                /\ pc' = "done"
                /\ UNCHANGED <<loc, progress_tracker>>
           ELSE IF ~index_is_unique(coordinates_df)
           THEN /\ raise_unhandled(Exc("ValueError", "DataFrame index must be unique for orient='index'"))
                /\ pc' = "done"
                /\ UNCHANGED <<loc, progress_tracker>>
           ELSE LET station_ids == unique(station_id_column(rows)) IN
                /\ loc' = [coord_map |-> coord_map(coordinates_df),
                           station_ids |-> station_ids, i |-> 1]
                /\ progress_tracker' = ProgressTracker(Len(station_ids))
                /\ pc' = "loop"
                /\ UNCHANGED <<outcome, err, result>>

\* Lines 486-493: one iteration of the loop over station_ids.
update_coordinates_iteration ==
    /\ Running("update_coordinates")
    /\ pc = "loop"
    /\ loc.i <= Len(loc.station_ids)
    /\ LET station_id == loc.station_ids[loc.i] IN
        /\ args' = IF station_id \in DOMAIN loc.coord_map
                   THEN [args EXCEPT !.data.rows =
                            set_station_coordinates(@, station_id, loc.coord_map[station_id])]
                   ELSE args
        /\ progress_tracker' = tracker_update(progress_tracker, 1)
        /\ loc' = [loc EXCEPT !.i = @ + 1]
    /\ UNCHANGED <<fn, pc, args0, outcome, err, result>>

\* Line 495: return data (the caller's own table).
update_coordinates_return ==
    /\ Running("update_coordinates")
    /\ pc = "loop"
    /\ loc.i > Len(loc.station_ids)
    /\ return(args.data)
    /\ pc' = "done"
    /\ UNCHANGED <<fn, args, args0, loc, progress_tracker>>

(***************************************************************************)
(* update_coordinates, array variant.  The dataset has the coordinate      *)
(* station_id and the coordinate arrays lat and lon, along station_id      *)
(* alone or along station_id and time, in either order.  A one-dimensional *)
(* array is a sequence, a two-dimensional one a sequence (first dimension) *)
(* of sequences (second dimension).                                        *)
(***************************************************************************)
update_coordinates_prefix == "Error during coordinate update"

CoordDims == {<<"station_id">>, <<"station_id", "time">>, <<"time", "station_id">>}

\* data['station_id'].values: the labels of the stations, in order.
StationLabels ==
    {l \in SeqsUpTo(StationIds, NStations) :
        l # <<>> /\ \A i, j \in Idx(l) : l[i] = l[j] => i = j}

\* The coordinate arrays of the given dimensions with values drawn from vals.
CoordArrays(dims, n_station, n_time, vals) ==
    LET n(d) == IF d = "station_id" THEN n_station ELSE n_time IN
    IF Len(dims) = 1 THEN [1..n(dims[1]) -> vals]
    ELSE [1..n(dims[1]) -> [1..n(dims[2]) -> vals]]

\* The datasets whose lat and lon have the given dimensions.
CoordDatasets(dims) ==
    UNION {[kind : {"Dataset"}, station_ids : {l}, n_time : {nt}, dims : {dims},
            lat : CoordArrays(dims, Len(l), nt, LatValues),
            lon : CoordArrays(dims, Len(l), nt, LonValues)] :
           l \in StationLabels, nt \in 1..MaxTimes}

\* updated[i] = v for a one-dimensional array, updated[i, :] = v otherwise:
\* position i of the FIRST dimension, whichever dimension that is.
set_first_axis(updated, dims, i, v) ==
    IF Len(dims) = 1 THEN [updated EXCEPT ![i] = v]
    ELSE [updated EXCEPT ![i] = [b \in DOMAIN updated[i] |-> v]]

\* Lines 501-520: the Dataset branch: build the lookup, read the station
\* labels, create the tracker, copy the coordinate arrays.
Call_update_coordinates_Dataset ==
    /\ fn = "idle"
    /\ \E dims \in CoordDims :
       \E data \in CoordDatasets(dims),
          coordinates_df \in SeqsUpTo(CoordUpdateRows, MaxCoordRows) :
        LET a == [data |-> data, coordinates_df |-> coordinates_df] IN
        /\ Len(data.dims) = 1 => data.n_time = 1
        /\ Enter("update_coordinates", a)
        /\ args' = a
        /\ IF ~index_is_unique(coordinates_df)
           THEN /\ raise_unhandled(Exc("ValueError", "DataFrame index must be unique for orient='index'"))
                /\ pc' = "done"
                /\ UNCHANGED <<loc, progress_tracker>>
           ELSE /\ loc' = [coord_map |-> coord_map(coordinates_df),
                           station_ids |-> data.station_ids, i |-> 1,
                           updated_lat |-> data.lat, updated_lon |-> data.lon]
                /\ progress_tracker' = ProgressTracker(Len(data.station_ids))
                /\ pc' = "loop_array"
                /\ UNCHANGED <<outcome, err, result>>

\* Lines 522-532: one iteration of the loop over enumerate(station_ids).  The
\* i-th station writes position i of the first dimension of the copies; a
\* position beyond that dimension raises IndexError.
update_coordinates_Dataset_iteration ==
    /\ Running("update_coordinates")
    /\ pc = "loop_array"
    /\ loc.i <= Len(loc.station_ids)
    /\ LET sid == loc.station_ids[loc.i] IN
       IF sid \in DOMAIN loc.coord_map /\ loc.i > Len(loc.updated_lat)
       THEN /\ except_Exception(progress_tracker, update_coordinates_prefix,
                 Exc("IndexError", "index is out of bounds for axis 0"))
            /\ pc' = "done"
            /\ UNCHANGED loc
       ELSE /\ loc' = IF sid \in DOMAIN loc.coord_map
                      THEN [loc EXCEPT
                              !.i = @ + 1,
                              !.updated_lat = set_first_axis(@, args.data.dims, loc.i,
                                                             loc.coord_map[sid].New_Lat),
                              !.updated_lon = set_first_axis(@, args.data.dims, loc.i,
                                                             loc.coord_map[sid].New_Lon)]
                      ELSE [loc EXCEPT !.i = @ + 1]
            /\ progress_tracker' = tracker_update(progress_tracker, 1)
            /\ UNCHANGED <<pc, outcome, err, result>>
    /\ UNCHANGED <<fn, args, args0>>

\* Lines 534-538: the copies are assigned back to the caller's dataset, which
\* is returned.
update_coordinates_Dataset_return ==
    /\ Running("update_coordinates")
    /\ pc = "loop_array"
    /\ loc.i > Len(loc.station_ids)
    /\ args' = [args EXCEPT !.data.lat = loc.updated_lat, !.data.lon = loc.updated_lon]
    /\ return(args'.data)
    /\ pc' = "done"
    /\ UNCHANGED <<fn, args0, loc, progress_tracker>>

(***************************************************************************)
(* convert_hourly_to_daily.                                                *)
(***************************************************************************)
Days == {1, 2, 3}
\* The observations of a day: the hour and the value observed.
HourlyObservations == {[hour |-> 6, value |-> 0], [hour |-> 18, value |-> 2]}
\* The representation of the time column: text that parses as date-times,
\* text that does not, or date-times already.
TimeDtypes == {"str", "str_unparseable", "datetime64"}

HourlyRows ==
    {[station_id |-> s, day |-> d, hour |-> o.hour, value |-> o.value] :
        s \in StationIds, d \in Days, o \in HourlyObservations}

RECURSIVE gcd(_, _)
gcd(a, b) == IF b = 0 THEN a ELSE gcd(b, a % b)

RECURSIVE sum_values(_)
sum_values(s) == IF s = <<>> THEN 0 ELSE s[1].value + sum_values(Tail(s))

NaN == [nan |-> TRUE]

\* Series.mean() of the rows of one bin: NaN for an empty bin, else sum / count
\* (kept as a fraction in lowest terms).
mean(rows) ==
    IF rows = <<>> THEN NaN
    ELSE LET g == gcd(Len(rows), sum_values(rows))
         IN [nan |-> FALSE, num |-> sum_values(rows) \div g, den |-> Len(rows) \div g]

\* df[df['station_id'] == station_id]
select_station(rows, sid) == SelectSeq(rows, LAMBDA r : r.station_id = sid)

min_day(rows) == CHOOSE d \in {rows[i].day : i \in Idx(rows)} :
                    \A i \in Idx(rows) : d <= rows[i].day
max_day(rows) == CHOOSE d \in {rows[i].day : i \in Idx(rows)} :
                    \A i \in Idx(rows) : d >= rows[i].day

\* A faulty resampling that keeps only the days that have observations.
daily_bins_observed_only(station_data) ==
    LET days == {station_data[i].day : i \in Idx(station_data)}
        nth(k) == CHOOSE d \in days : Cardinality({e \in days : e < d}) = k - 1
    IN [k \in 1..Cardinality(days) |-> nth(k)]

\* The bins of resample('D'): every calendar day from the first to the last
\* observation, with or without observations.
daily_bins(station_data) ==
    [k \in 1..(max_day(station_data) - min_day(station_data) + 1) |->
        min_day(station_data) + k - 1]

\* station_data.set_index(time_col).resample('D')[value_col].mean().reset_index()
\* followed by daily_station['station_id'] = station_id
resample_daily_mean(station_data, station_id) ==
    LET bins == daily_bins(station_data)
    IN [k \in Idx(bins) |->
          [time |-> [day |-> bins[k], hour |-> 0],
           value |-> mean(SelectSeq(station_data, LAMBDA r : r.day = bins[k])),
           station_id |-> station_id]]

\* pd.to_datetime of a column: text becomes date-times, date-times stay.
to_datetime(dtype) == "datetime64"

hourly_to_daily_prefix == "Error during hourly to daily conversion"

\* Lines 636-649: coerce the time column of df (the caller's table), list the
\* stations, create the tracker.
Call_convert_hourly_to_daily ==
    /\ fn = "idle"
    /\ \E dtype \in TimeDtypes, value_col \in {"value", "absent_column"},
       rows \in SeqsUpTo(HourlyRows, MaxHourlyRows) :
        LET a == [df |-> [time_dtype |-> dtype, rows |-> rows], value_col |-> value_col] IN
        /\ value_col = "absent_column" => dtype = "datetime64"
        /\ Enter("convert_hourly_to_daily", a)
        /\ IF dtype = "str_unparseable" /\ rows # <<>>
           THEN /\ raise_unhandled(Exc("ValueError", "Unknown datetime string format"))
                /\ args' = a
                /\ pc' = "done"
                /\ UNCHANGED <<loc, progress_tracker>>
           ELSE LET station_ids == unique(station_id_column(rows)) IN
                /\ args' = [a EXCEPT !.df.time_dtype = to_datetime(@)]
                /\ loc' = [station_ids |-> station_ids, i |-> 1, daily_data |-> <<>>]
                /\ progress_tracker' = ProgressTracker(Len(station_ids))
                /\ pc' = "loop"
                /\ UNCHANGED <<outcome, err, result>>

\* Lines 656-667: one iteration of the loop over station_ids.
convert_hourly_to_daily_iteration ==
    /\ Running("convert_hourly_to_daily")
    /\ pc = "loop"
    /\ loc.i <= Len(loc.station_ids)
    /\ LET station_id == loc.station_ids[loc.i]
           station_data == select_station(args.df.rows, station_id)
       IN IF args.value_col = "absent_column"
          THEN /\ except_Exception(progress_tracker, hourly_to_daily_prefix, Exc("KeyError", "Column not found"))
               /\ pc' = "done"
               /\ UNCHANGED loc
          ELSE /\ loc' = [loc EXCEPT !.i = @ + 1,
                              !.daily_data = Append(@, resample_daily_mean(station_data, station_id))]
               /\ progress_tracker' = tracker_update(progress_tracker, 1)
               /\ UNCHANGED <<pc, outcome, err, result>>
    /\ UNCHANGED <<fn, args, args0>>

\* Lines 670-672: pd.concat(daily_data, ignore_index=True), which raises
\* ValueError for an empty list, and the return.
convert_hourly_to_daily_return ==
    /\ Running("convert_hourly_to_daily")
    /\ pc = "loop"
    /\ loc.i > Len(loc.station_ids)
    /\ IF loc.daily_data = <<>>
       THEN /\ except_Exception(progress_tracker, hourly_to_daily_prefix, Exc("ValueError", "No objects to concatenate"))
       ELSE /\ return([time_dtype |-> "datetime64", rows |-> concat(loc.daily_data)])
            /\ UNCHANGED progress_tracker
    /\ pc' = "done"
    /\ UNCHANGED <<fn, args, args0, loc>>

(***************************************************************************)
(* filter_stations.                                                        *)
(***************************************************************************)
FilterValues == {7}
\* Rows of a flat table with and without the column station_id.
FilterRows == [station_id : StationIds, value : FilterValues]
FilterRowsNoId == [value : FilterValues]

filter_stations_prefix == "Error during station filtering"

in_list(x, list) == \E k \in Idx(list) : list[k] = x

\* A faulty filter that keeps the stations that are not listed.
isin_negated(rows, stations_list) ==
    SelectSeq(rows, LAMBDA r : ~in_list(r.station_id, stations_list))

\* data[data['station_id'].isin(stations_list)]
isin_filter(rows, stations_list) ==
    SelectSeq(rows, LAMBDA r : in_list(r.station_id, stations_list))

\* Lines 249-254: the tracker is created; nothing else precedes the try block.
Call_filter_stations ==
    /\ fn = "idle"
    /\ \E kind \in {"DataFrame", "Dataset", "other"}, has_station_id \in BOOLEAN :
       \E rows \in IF has_station_id THEN SeqsUpTo(FilterRows, MaxRows)
                    ELSE SeqsUpTo(FilterRowsNoId, MaxRows),
          stations_list \in SeqsUpTo(StationIds, MaxListLen) :
        LET a == [data |-> [kind |-> kind,
                            columns |-> IF has_station_id THEN {"station_id", "value"}
                                        ELSE {"value"},
                            rows |-> rows],
                  stations_list |-> stations_list] IN
        /\ kind = "other" => rows = <<>> /\ has_station_id = FALSE
        \* a Dataset has a station_id coordinate with distinct labels
        /\ kind = "Dataset" => /\ has_station_id
                               /\ \A i, j \in Idx(rows) : rows[i].station_id = rows[j].station_id => i = j
        /\ Enter("filter_stations", a)
        /\ args' = a
        /\ loc' = [filtered_data |-> <<>>]
        /\ progress_tracker' = ProgressTracker(2)
        /\ pc' = "step1"
        /\ UNCHANGED <<outcome, err, result>>

\* Lines 257-266: step 1, validation and selection.
filter_stations_step1 ==
    /\ Running("filter_stations")
    /\ pc = "step1"
    /\ LET t == tracker_update(progress_tracker, 1)
           data == args.data
       IN IF data.kind = "DataFrame"
          THEN IF "station_id" \notin data.columns
               THEN /\ except_Exception(t, filter_stations_prefix,
                         Exc("ValueError", "DataFrame does not contain 'station_id' column"))
                    /\ pc' = "done"
                    /\ UNCHANGED loc
               ELSE /\ loc' = [filtered_data |->
                                [data EXCEPT !.rows = isin_filter(@, args.stations_list)]]
                    /\ progress_tracker' = t
                    /\ pc' = "step2"
                    /\ UNCHANGED <<outcome, err, result>>
          ELSE IF data.kind = "Dataset"
          THEN \* data.sel(station_id=stations_list): every label must be in the index
               IF \E k \in Idx(args.stations_list) :
                      ~in_list(args.stations_list[k], station_id_column(data.rows))
               THEN /\ except_Exception(t, filter_stations_prefix,
                         Exc("KeyError", "not all values found in index 'station_id'"))
                    /\ pc' = "done"
                    /\ UNCHANGED loc
               ELSE /\ loc' = [filtered_data |->
                                [data EXCEPT !.rows =
                                    [k \in Idx(args.stations_list) |->
                                        data.rows[CHOOSE i \in Idx(data.rows) :
                                            data.rows[i].station_id = args.stations_list[k]]]]]
                    /\ progress_tracker' = t
                    /\ pc' = "step2"
                    /\ UNCHANGED <<outcome, err, result>>
          ELSE /\ except_Exception(t, filter_stations_prefix,
                    Exc("TypeError", "Data must be a pandas DataFrame or xarray Dataset"))
               /\ pc' = "done"
               /\ UNCHANGED loc
    /\ UNCHANGED <<fn, args, args0>>

\* Lines 269-270: step 2, return filtered_data.
filter_stations_step2 ==
    /\ Running("filter_stations")
    /\ pc = "step2"
    /\ progress_tracker' = tracker_update(progress_tracker, 1)
    /\ return(loc.filtered_data)
    /\ pc' = "done"
    /\ UNCHANGED <<fn, args, args0, loc>>

(***************************************************************************)
(* extract_stations_in_basin.                                              *)
(***************************************************************************)
BasinIds == {"B1", "B2"}
\* Station positions and basin polygons, in kilometres (EPSG:4326 stands for
\* the geographic CRS of the inputs).
Positions == {0, 1, 2}
BasinPolygons == {[lo |-> 1, hi |-> 3], [lo |-> 0, hi |-> 1]}
BufferKm == {-1, 0, 1}
BasinRows == [Station_ID : BasinIds, geometry : BasinPolygons]
MetresPerKm == 1000

extract_prefix == "Error during station extraction"

\* A faulty containment test that accepts points on the boundary.
within_closed(x, polygon) == polygon.lo <= x /\ x <= polygon.hi

\* shapely within: the point lies in the interior of the polygon.
within(x, polygon) == polygon.lo < x /\ x < polygon.hi

\* to_crs(epsg=3763): positions become metres in the projected CRS.
point_to_3763(x) == x * MetresPerKm
polygon_to_3763(g) == [lo |-> g.lo * MetresPerKm, hi |-> g.hi * MetresPerKm]
\* to_crs(epsg=4326) of a geometry given in metres.
polygon_to_4326(g) == [lo |-> g.lo \div MetresPerKm, hi |-> g.hi \div MetresPerKm]

\* GeoSeries.buffer(buffer_m)
buffer(g, buffer_m) == [lo |-> g.lo - buffer_m, hi |-> g.hi + buffer_m]

\* A faulty selection that takes every polygon, whatever its Station_ID.
basin_rows_unfiltered(basin_shapefile, basin_id) == basin_shapefile

\* basin_shapefile.loc[basin_shapefile['Station_ID'] == basin_id]
basin_rows(basin_shapefile, basin_id) ==
    SelectSeq(basin_shapefile, LAMBDA r : r.Station_ID = basin_id)

\* A faulty test that also buffers for a buffer of zero.
buffer_requested_or_zero(buffer_km) == buffer_km >= 0

\* if buffer_km > 0
buffer_requested(buffer_km) == buffer_km > 0

IntZero == [type |-> "int", value |-> 0]
GeoSeries(geoms, crs) == [type |-> "GeoSeries", geoms |-> geoms, crs |-> crs]

\* stations.loc[mask].assign(basin=basin_id)
select_and_assign_basin(stations, mask, basin_id) ==
    LET kept == SelectSeq([i \in Idx(stations) |-> [row |-> stations[i], keep |-> mask[i]]],
                          LAMBDA r : r.keep)
    IN [k \in Idx(kept) |->
          [station_id |-> kept[k].row.station_id, x |-> kept[k].row.x, basin |-> basin_id]]

\* Lines 188-193: the tracker is created; nothing else precedes the try block.
Call_extract_stations_in_basin ==
    /\ fn = "idle"
    /\ \E xs \in SeqsUpTo(Positions, NStations),
          basin_shapefile \in SeqsUpTo(BasinRows, MaxBasins),
          basin_id \in BasinIds,
          buffer_km \in BufferKm :
        LET a == [stations |-> [i \in Idx(xs) |-> [station_id |-> i, x |-> xs[i]]],
                  basin_shapefile |-> basin_shapefile,
                  basin_id |-> basin_id,
                  buffer_km |-> buffer_km] IN
        /\ Enter("extract_stations_in_basin", a)
        /\ args' = a
        /\ loc' = [none |-> TRUE]
        /\ progress_tracker' = ProgressTracker(3)
        /\ pc' = "step1"
        /\ UNCHANGED <<outcome, err, result>>

\* Lines 197-198: step 1, the geometry of the first polygon whose Station_ID
\* is basin_id; .iloc[0] raises IndexError when there is none.
extract_stations_in_basin_step1 ==
    /\ Running("extract_stations_in_basin")
    /\ pc = "step1"
    /\ LET t == tracker_update(progress_tracker, 1)
           matches == basin_rows(args.basin_shapefile, args.basin_id)
       IN IF matches = <<>>
          THEN /\ except_Exception(t, extract_prefix,
                    Exc("IndexError", "single positional indexer is out-of-bounds"))
               /\ pc' = "done"
               /\ UNCHANGED loc
          ELSE /\ loc' = [basin_geom |-> matches[1].geometry]
               /\ progress_tracker' = t
               /\ pc' = "step2"
               /\ UNCHANGED <<outcome, err, result>>
    /\ UNCHANGED <<fn, args, args0>>

\* Lines 201-216: step 2, the buffer and the containment mask.
extract_stations_in_basin_step2 ==
    /\ Running("extract_stations_in_basin")
    /\ pc = "step2"
    /\ progress_tracker' = tracker_update(progress_tracker, 1)
    /\ IF buffer_requested(args.buffer_km)
       THEN LET matches == basin_rows(args.basin_shapefile, args.basin_id)
                basin_crs_conversion == [k \in Idx(matches) |-> polygon_to_3763(matches[k].geometry)]
                stations_crs_conversion == [i \in Idx(args.stations) |-> point_to_3763(args.stations[i].x)]
                buffer_m == args.buffer_km * 1000    \* line 208
                basin_buffer == [k \in Idx(matches) |-> buffer(basin_crs_conversion[k], buffer_m)]
            IN loc' = [basin_geom |-> loc.basin_geom,
                       mask |-> [i \in Idx(args.stations) |->
                                    within(stations_crs_conversion[i], basin_buffer[1])],
                       basin_buffer |-> GeoSeries([k \in Idx(matches) |->
                                            polygon_to_4326(basin_buffer[k])], 4326)]
       ELSE loc' = [basin_geom |-> loc.basin_geom,
                    mask |-> [i \in Idx(args.stations) |->
                                within(args.stations[i].x, loc.basin_geom)],
                    basin_buffer |-> IntZero]
    /\ pc' = "step3"
    /\ UNCHANGED <<fn, args, args0, outcome, err, result>>

\* Lines 219-222: step 3, the stations inside, tagged with the basin; return.
extract_stations_in_basin_step3 ==
    /\ Running("extract_stations_in_basin")
    /\ pc = "step3"
    /\ progress_tracker' = tracker_update(progress_tracker, 1)
    /\ return(<<select_and_assign_basin(args.stations, loc.mask, args.basin_id),
                loc.basin_buffer>>)
    /\ pc' = "done"
    /\ UNCHANGED <<fn, args, args0, loc>>

(***************************************************************************)
(* spatial_join.                                                           *)
(***************************************************************************)
CrsTags == {4326, 3763}
PointGeometries == {[type |-> "Point", lo |-> 1, hi |-> 1],
                    [type |-> "Point", lo |-> 3, hi |-> 3],
                    [type |-> "LineString", lo |-> 1, hi |-> 3]}
PolygonGeometries == {[type |-> "Polygon", lo |-> 0, hi |-> 1],
                      [type |-> "MultiPolygon", lo |-> 2, hi |-> 4],
                      [type |-> "Point", lo |-> 1, hi |-> 1]}

spatial_join_prefix == "Error during spatial join"

\* all(isinstance(geom, Point) for geom in points_gdf.geometry)
all_points(geometry) == \A i \in Idx(geometry) : geometry[i].type = "Point"

\* A faulty check that accepts every geometry as a polygon.
all_polygons_unchecked(geometry) == TRUE

\* all(isinstance(geom, (Polygon, MultiPolygon)) for geom in polygons_gdf.geometry)
all_polygons(geometry) ==
    \A i \in Idx(geometry) : geometry[i].type \in {"Polygon", "MultiPolygon"}

\* The predicate "intersects": the geometries share a position.
intersects(g, h) == g.lo <= h.hi /\ h.lo <= g.hi

\* gpd.sjoin(points_gdf, polygons_gdf, how='inner', op='intersects'): one row
\* per pair of a left and a right geometry that intersect, in left order.
sjoin(left, right) ==
    LET pairs == [k \in 1..(Len(left) * Len(right)) |->
                    [index |-> ((k - 1) \div Len(right)) + 1,
                     index_right |-> ((k - 1) % Len(right)) + 1]]
    IN SelectSeq(pairs, LAMBDA p : intersects(left[p.index], right[p.index_right]))

\* Lines 407-412: the tracker is created; nothing else precedes the try block.
Call_spatial_join ==
    /\ fn = "idle"
    /\ \E pg \in SeqsUpTo(PointGeometries, MaxGeoms),
          qg \in SeqsUpTo(PolygonGeometries, MaxGeoms),
          pcrs \in CrsTags, qcrs \in CrsTags :
        LET a == [points_gdf |-> [geometry |-> pg, crs |-> pcrs],
                  polygons_gdf |-> [geometry |-> qg, crs |-> qcrs]] IN
        /\ Enter("spatial_join", a)
        /\ args' = a
        /\ loc' = [ops |-> <<>>]
        /\ progress_tracker' = ProgressTracker(4)
        /\ pc' = "step1"
        /\ UNCHANGED <<outcome, err, result>>

\* Lines 416-420: step 1, the geometry types of both collections.  loc.ops
\* lists the operations in the order they are executed.
spatial_join_step1 ==
    /\ Running("spatial_join")
    /\ pc = "step1"
    /\ LET t == tracker_update(progress_tracker, 1) IN
       IF ~all_points(args.points_gdf.geometry)
       THEN /\ except_Exception(t, spatial_join_prefix,
                 Exc("ValueError", "points_gdf must contain only Point geometries"))
            /\ loc' = [ops |-> Append(loc.ops, "check_points")]
            /\ pc' = "done"
       ELSE IF ~all_polygons(args.polygons_gdf.geometry)
       THEN /\ except_Exception(t, spatial_join_prefix,
                 Exc("ValueError", "polygons_gdf must contain only Polygon or MultiPolygon geometries"))
            /\ loc' = [ops |-> loc.ops \o <<"check_points", "check_polygons">>]
            /\ pc' = "done"
       ELSE /\ progress_tracker' = t
            /\ loc' = [ops |-> loc.ops \o <<"check_points", "check_polygons">>]
            /\ pc' = "step2"
            /\ UNCHANGED <<outcome, err, result>>
    /\ UNCHANGED <<fn, args, args0>>

\* Lines 423-425: step 2, the CRS tags.
spatial_join_step2 ==
    /\ Running("spatial_join")
    /\ pc = "step2"
    /\ loc' = [ops |-> Append(loc.ops, "check_crs")]
    /\ LET t == tracker_update(progress_tracker, 1) IN
       IF args.points_gdf.crs # args.polygons_gdf.crs
       THEN /\ except_Exception(t, spatial_join_prefix,
                 Exc("ValueError", "Coordinate systems of points and polygons must match"))
            /\ pc' = "done"
       ELSE /\ progress_tracker' = t
            /\ pc' = "step3"
            /\ UNCHANGED <<outcome, err, result>>
    /\ UNCHANGED <<fn, args, args0>>

\* Lines 428-429: step 3, the join.
spatial_join_step3 ==
    /\ Running("spatial_join")
    /\ pc = "step3"
    /\ progress_tracker' = tracker_update(progress_tracker, 1)
    /\ loc' = [ops |-> Append(loc.ops, "sjoin"),
               result |-> sjoin(args.points_gdf.geometry, args.polygons_gdf.geometry)]
    /\ pc' = "step4"
    /\ UNCHANGED <<fn, args, args0, outcome, err, result>>

\* Lines 432-433: step 4, return result.
spatial_join_step4 ==
    /\ Running("spatial_join")
    /\ pc = "step4"
    /\ progress_tracker' = tracker_update(progress_tracker, 1)
    /\ return(loc.result)
    /\ pc' = "done"
    /\ UNCHANGED <<fn, args, args0, loc>>

(***************************************************************************)
(* Datasets with dimensions time x station_id, and assess_data_availability.*)
(***************************************************************************)
\* An observation is a number or missing (NaN).
Observed(v) == [nan |-> FALSE, v |-> v]
Cells == {NaN, Observed(5)}

\* A dataset: n_time time points, n_station stations, one variable obs[s][t].
Datasets ==
    UNION {[n_time : {nt}, n_station : {ns}, obs : [1..ns -> [1..nt -> Cells]]] :
            nt \in 0..MaxTimes, ns \in 1..NStations}

availability_prefix == "Error during data availability assessment"

\* A faulty count that counts every cell, missing or not.
count_all(series) == Len(series)

\* count(dim=time_dim) for one station: the number of non-NaN values.
count_non_nan(series) == Cardinality({t \in Idx(series) : ~series[t].nan})

\* Binary floating point with a significand of FloatBits bits (64-bit floats
\* have 53): a float is m * 2^e with m = 0 or 2^(FloatBits-1) <= m < 2^FloatBits.
FloatZero == [nan |-> FALSE, m |-> 0, e |-> 0]

\* The float nearest to num / den * 2^e (num, den > 0), ties to the even
\* significand.
RECURSIVE float_round(_, _, _)
float_round(num, den, e) ==
    IF num >= den * 2^FloatBits THEN float_round(num, 2 * den, e + 1)
    ELSE IF num < den * 2^(FloatBits - 1) THEN float_round(2 * num, den, e - 1)
    ELSE LET q == num \div den
             r == num % den
             m == IF 2 * r > den \/ (2 * r = den /\ q % 2 = 1) THEN q + 1 ELSE q
         IN IF m = 2^FloatBits THEN [nan |-> FALSE, m |-> 2^(FloatBits - 1), e |-> e + 1]
            ELSE [nan |-> FALSE, m |-> m, e |-> e]

\* counts / total_times (true division of integers, numpy's 0 / 0 being NaN).
float_divide(count, total_times) ==
    IF total_times = 0 THEN NaN
    ELSE IF count = 0 THEN FloatZero
    ELSE float_round(count, total_times, 0)

\* x * 100
float_times(x, k) ==
    IF x.nan THEN NaN
    ELSE IF x.m = 0 THEN FloatZero
    ELSE float_round(x.m * k, 1, x.e)

\* (counts / total_times) * 100
percentage(count, total_times) == float_times(float_divide(count, total_times), 100)

\* Lines 300-305: the tracker is created; nothing else precedes the try block.
Call_assess_data_availability ==
    /\ fn = "idle"
    /\ \E data \in Datasets :
        LET a == [data |-> data] IN
        /\ Enter("assess_data_availability", a)
        /\ args' = a
        /\ loc' = [none |-> TRUE]
        /\ progress_tracker' = ProgressTracker(3)
        /\ pc' = "step1"
        /\ UNCHANGED <<outcome, err, result>>

\* Lines 309-310: step 1, counts = data.count(dim=time_dim).
assess_data_availability_step1 ==
    /\ Running("assess_data_availability")
    /\ pc = "step1"
    /\ progress_tracker' = tracker_update(progress_tracker, 1)
    /\ loc' = [counts |-> [s \in 1..args.data.n_station |-> count_non_nan(args.data.obs[s])]]
    /\ pc' = "step2"
    /\ UNCHANGED <<fn, args, args0, outcome, err, result>>

\* Lines 313-314: step 2, total_times = len(data[time_dim]).
assess_data_availability_step2 ==
    /\ Running("assess_data_availability")
    /\ pc = "step2"
    /\ progress_tracker' = tracker_update(progress_tracker, 1)
    /\ loc' = [counts |-> loc.counts, total_times |-> args.data.n_time]
    /\ pc' = "step3"
    /\ UNCHANGED <<fn, args, args0, outcome, err, result>>

\* Lines 317-320: step 3, availability = (counts / total_times) * 100; return.
assess_data_availability_step3 ==
    /\ Running("assess_data_availability")
    /\ pc = "step3"
    /\ progress_tracker' = tracker_update(progress_tracker, 1)
    /\ return([s \in Idx(loc.counts) |-> percentage(loc.counts[s], loc.total_times)])
    /\ pc' = "done"
    /\ UNCHANGED <<fn, args, args0, loc>>

(***************************************************************************)
(* preprocess_swe and preprocess_precip.                                   *)
(***************************************************************************)
\* A dataset with the single dimension station_id.
Datasets1D ==
    UNION {[n_station : {ns}, obs : [1..ns -> Cells]] : ns \in 1..NStations}

preprocess_swe_prefix == "Error during SWE preprocessing"
preprocess_precip_prefix == "Error during precipitation preprocessing"

\* Dataset.to_dataframe(): one row per combination of the dimensions' labels,
\* the dimensions forming the index (a MultiIndex when there are several).
to_dataframe(ds, time_dtype) ==
    IF "n_time" \in DOMAIN ds
    THEN [index |-> <<"time", "station_id">>,
          columns |-> <<"obs">>,
          time_dtype |-> time_dtype,
          rows |-> [k \in 1..(ds.n_time * ds.n_station) |->
                      LET t == ((k - 1) \div ds.n_station) + 1
                          st == ((k - 1) % ds.n_station) + 1
                      IN [time |-> t, station_id |-> st, obs |-> ds.obs[st][t]]]]
    ELSE [index |-> <<"station_id">>,
          columns |-> <<"obs">>,
          time_dtype |-> time_dtype,
          rows |-> [k \in 1..ds.n_station |-> [station_id |-> k, obs |-> ds.obs[k]]]]

\* isinstance(df.index, pd.MultiIndex)
is_MultiIndex(df) == Len(df.index) > 1

\* df.reset_index(): the index levels become the first columns.
reset_index(df) == [df EXCEPT !.index = <<>>, !.columns = df.index \o @]

in_columns(name, df) == \E k \in Idx(df.columns) : df.columns[k] = name

\* A faulty assignment that writes the metadata into the first row only.
add_metadata_first_row_only(df, source) ==
    [index |-> df.index,
     columns |-> df.columns \o <<"data_source", "units">>,
     time_dtype |-> df.time_dtype,
     rows |-> [k \in Idx(df.rows) |->
                 [c \in DOMAIN df.rows[k] \cup {"data_source", "units"} |->
                    IF c = "data_source" THEN (IF k = 1 THEN source ELSE "")
                    ELSE IF c = "units" THEN (IF k = 1 THEN "mm" ELSE "")
                    ELSE df.rows[k][c]]]]

\* df['data_source'] = source; df['units'] = 'mm'
add_metadata(df, source) ==
    [index |-> df.index,
     columns |-> df.columns \o <<"data_source", "units">>,
     time_dtype |-> df.time_dtype,
     rows |-> [k \in Idx(df.rows) |->
                 [c \in DOMAIN df.rows[k] \cup {"data_source", "units"} |->
                    IF c = "data_source" THEN source
                    ELSE IF c = "units" THEN "mm"
                    ELSE df.rows[k][c]]]]

PreprocessInputs ==
    [kind : {"Dataset"}, ds : Datasets \cup Datasets1D, time_dtype : TimeDtypes]
        \cup {[kind |-> "other"]}

\* Lines 80-85: the tracker is created; nothing else precedes the try block.
Call_preprocess_swe ==
    /\ fn = "idle"
    /\ \E swe_data \in PreprocessInputs :
        LET a == [swe_data |-> swe_data] IN
        /\ swe_data.kind = "Dataset" => swe_data.time_dtype = "datetime64"
        /\ Enter("preprocess_swe", a)
        /\ args' = a
        /\ loc' = [none |-> TRUE]
        /\ progress_tracker' = ProgressTracker(4)
        /\ pc' = "step1"
        /\ UNCHANGED <<outcome, err, result>>

\* Lines 89-90: step 1, swe_df = swe_data.to_dataframe().
preprocess_swe_step1 ==
    /\ Running("preprocess_swe")
    /\ pc = "step1"
    /\ LET t == tracker_update(progress_tracker, 1) IN
       IF args.swe_data.kind # "Dataset"
       THEN /\ except_Exception(t, preprocess_swe_prefix,
                 Exc("AttributeError", "object has no attribute 'to_dataframe'"))
            /\ pc' = "done"
            /\ UNCHANGED loc
       ELSE /\ progress_tracker' = t
            /\ loc' = [swe_df |-> to_dataframe(args.swe_data.ds, args.swe_data.time_dtype)]
            /\ pc' = "step2"
            /\ UNCHANGED <<outcome, err, result>>
    /\ UNCHANGED <<fn, args, args0>>

\* Lines 93-95: step 2, a composite index is flattened into columns.
preprocess_swe_step2 ==
    /\ Running("preprocess_swe")
    /\ pc = "step2"
    /\ progress_tracker' = tracker_update(progress_tracker, 1)
    /\ loc' = [swe_df |-> IF is_MultiIndex(loc.swe_df) THEN reset_index(loc.swe_df)
                          ELSE loc.swe_df]
    /\ pc' = "step3"
    /\ UNCHANGED <<fn, args, args0, outcome, err, result>>

\* Lines 98-100: step 3, the metadata columns.
preprocess_swe_step3 ==
    /\ Running("preprocess_swe")
    /\ pc = "step3"
    /\ progress_tracker' = tracker_update(progress_tracker, 1)
    /\ loc' = [swe_df |-> add_metadata(loc.swe_df, "SWE")]
    /\ pc' = "step4"
    /\ UNCHANGED <<fn, args, args0, outcome, err, result>>

\* Lines 103-104: step 4, return swe_df.
preprocess_swe_step4 ==
    /\ Running("preprocess_swe")
    /\ pc = "step4"
    /\ progress_tracker' = tracker_update(progress_tracker, 1)
    /\ return(loc.swe_df)
    /\ pc' = "done"
    /\ UNCHANGED <<fn, args, args0, loc>>

\* Lines 126-131: the tracker is created; nothing else precedes the try block.
Call_preprocess_precip ==
    /\ fn = "idle"
    /\ \E precip_data \in PreprocessInputs :
        LET a == [precip_data |-> precip_data] IN
        /\ Enter("preprocess_precip", a)
        /\ args' = a
        /\ loc' = [none |-> TRUE]
        /\ progress_tracker' = ProgressTracker(4)
        /\ pc' = "step1"
        /\ UNCHANGED <<outcome, err, result>>

\* Lines 135-136: step 1, precip_df = precip_data.to_dataframe().
preprocess_precip_step1 ==
    /\ Running("preprocess_precip")
    /\ pc = "step1"
    /\ LET t == tracker_update(progress_tracker, 1) IN
       IF args.precip_data.kind # "Dataset"
       THEN /\ except_Exception(t, preprocess_precip_prefix,
                 Exc("AttributeError", "object has no attribute 'to_dataframe'"))
            /\ pc' = "done"
            /\ UNCHANGED loc
       ELSE /\ progress_tracker' = t
            /\ loc' = [precip_df |-> to_dataframe(args.precip_data.ds, args.precip_data.time_dtype)]
            /\ pc' = "step2"
            /\ UNCHANGED <<outcome, err, result>>
    /\ UNCHANGED <<fn, args, args0>>

\* Lines 139-141: step 2, a composite index is flattened into columns.
preprocess_precip_step2 ==
    /\ Running("preprocess_precip")
    /\ pc = "step2"
    /\ progress_tracker' = tracker_update(progress_tracker, 1)
    /\ loc' = [precip_df |-> IF is_MultiIndex(loc.precip_df) THEN reset_index(loc.precip_df)
                             ELSE loc.precip_df]
    /\ pc' = "step3"
    /\ UNCHANGED <<fn, args, args0, outcome, err, result>>

\* Lines 144-146: step 3, a time column is converted to date-times; text that
\* is no date-time makes pd.to_datetime raise.
preprocess_precip_step3 ==
    /\ Running("preprocess_precip")
    /\ pc = "step3"
    /\ LET t == tracker_update(progress_tracker, 1)
           df == loc.precip_df
       IN IF in_columns("time", df) /\ df.time_dtype = "str_unparseable" /\ df.rows # <<>>
          THEN /\ except_Exception(t, preprocess_precip_prefix,
                    Exc("ValueError", "Unknown datetime string format"))
               /\ pc' = "done"
               /\ UNCHANGED loc
          ELSE /\ progress_tracker' = t
               /\ loc' = [precip_df |-> IF in_columns("time", df)
                                        THEN [df EXCEPT !.time_dtype = to_datetime(@)]
                                        ELSE df]
               /\ pc' = "step4"
               /\ UNCHANGED <<outcome, err, result>>
    /\ UNCHANGED <<fn, args, args0>>

\* Lines 149-153: step 4, the metadata columns; return precip_df.
preprocess_precip_step4 ==
    /\ Running("preprocess_precip")
    /\ pc = "step4"
    /\ progress_tracker' = tracker_update(progress_tracker, 1)
    /\ return(add_metadata(loc.precip_df, "Precipitation"))
    /\ pc' = "done"
    /\ UNCHANGED <<fn, args, args0, loc>>

(***************************************************************************)
(* convert_to_geodataframe and filter_data_within_shape.  Here a point is  *)
(* a pair (lon, lat) and a shape a box of longitudes and latitudes.        *)
(***************************************************************************)
LonLat == {[lon |-> 1, lat |-> 1], [lon |-> 1, lat |-> 3], [lon |-> 3, lat |-> 1]}
Boxes == {[xlo |-> 0, xhi |-> 2, ylo |-> 0, yhi |-> 2],
          [xlo |-> 0, xhi |-> 4, ylo |-> 2, yhi |-> 4]}

geodataframe_prefix == "Error during GeoDataFrame conversion"
filter_shape_prefix == "Error during data filtering"

\* Point(lon, lat)
Point(lon, lat) == [type |-> "Point", x |-> lon, y |-> lat]

\* A faulty containment test that compares the longitudes only.
point_within_longitude_only(p, box) == box.xlo < p.x /\ p.x < box.xhi

\* point.within(box): the point lies in the interior of the box.
point_within(p, box) ==
    /\ box.xlo < p.x /\ p.x < box.xhi
    /\ box.ylo < p.y /\ p.y < box.yhi

\* Lines 353-358: the tracker is created; nothing else precedes the try block.
Call_convert_to_geodataframe ==
    /\ fn = "idle"
    /\ \E columns \in SUBSET {"lon", "lat"}, crs \in CrsTags :
       \E rows \in IF columns = {"lon", "lat"} THEN SeqsUpTo(LonLat, MaxRows) ELSE {<<>>} :
        LET a == [df |-> [columns |-> columns, rows |-> rows], crs |-> crs] IN
        /\ Enter("convert_to_geodataframe", a)
        /\ args' = a
        /\ loc' = [none |-> TRUE]
        /\ progress_tracker' = ProgressTracker(3)
        /\ pc' = "step1"
        /\ UNCHANGED <<outcome, err, result>>

\* Lines 362-364: step 1, both coordinate columns must exist.
convert_to_geodataframe_step1 ==
    /\ Running("convert_to_geodataframe")
    /\ pc = "step1"
    /\ LET t == tracker_update(progress_tracker, 1) IN
       IF "lon" \notin args.df.columns \/ "lat" \notin args.df.columns
       THEN /\ except_Exception(t, geodataframe_prefix,
                 Exc("ValueError", "DataFrame must contain 'lon' and 'lat' columns"))
            /\ pc' = "done"
       ELSE /\ progress_tracker' = t
            /\ pc' = "step2"
            /\ UNCHANGED <<outcome, err, result>>
    /\ UNCHANGED <<fn, args, args0, loc>>

\* Lines 367-368: step 2, one Point per row.
convert_to_geodataframe_step2 ==
    /\ Running("convert_to_geodataframe")
    /\ pc = "step2"
    /\ progress_tracker' = tracker_update(progress_tracker, 1)
    /\ loc' = [geometry |-> [k \in Idx(args.df.rows) |->
                                Point(args.df.rows[k].lon, args.df.rows[k].lat)]]
    /\ pc' = "step3"
    /\ UNCHANGED <<fn, args, args0, outcome, err, result>>

\* Lines 371-374: step 3, gpd.GeoDataFrame(df, geometry=geometry, crs=crs).
convert_to_geodataframe_step3 ==
    /\ Running("convert_to_geodataframe")
    /\ pc = "step3"
    /\ progress_tracker' = tracker_update(progress_tracker, 1)
    /\ return([columns |-> args.df.columns \cup {"geometry"},
               rows |-> [k \in Idx(args.df.rows) |->
                           [lon |-> args.df.rows[k].lon, lat |-> args.df.rows[k].lat,
                            geometry |-> loc.geometry[k]]],
               crs |-> args.crs])
    /\ pc' = "done"
    /\ UNCHANGED <<fn, args, args0, loc>>

ShapeRecords ==
    {[station_id |-> s, lon |-> p.lon, lat |-> p.lat] : s \in StationIds, p \in LonLat}

\* Lines 567-580: dataset.to_dataframe(), df['station_id'].unique() and the
\* tracker.  The records of the dataset lie along one dimension; when that
\* dimension is station_id itself, station_id is the index of the table, not a
\* column, and df['station_id'] raises KeyError.
Call_filter_data_within_shape ==
    /\ fn = "idle"
    /\ \E dim \in {"index", "station_id"},
          records \in SeqsUpTo(ShapeRecords, MaxRows),
          shape \in SeqsUpTo(Boxes, MaxGeoms) :
        LET a == [dataset |-> [dim |-> dim, records |-> records], shape |-> shape]
            df == [index |-> <<dim>>,
                   columns |-> IF dim = "station_id" THEN <<"lon", "lat">>
                               ELSE <<"station_id", "lon", "lat">>,
                   rows |-> records]
        IN
        /\ Enter("filter_data_within_shape", a)
        /\ args' = a
        /\ IF ~in_columns("station_id", df)
           THEN /\ raise_unhandled(Exc("KeyError", "station_id"))
                /\ pc' = "done"
                /\ UNCHANGED <<loc, progress_tracker>>
           ELSE LET station_ids == unique(station_id_column(df.rows)) IN
                /\ loc' = [df |-> df, station_ids |-> station_ids, i |-> 1,
                           filtered_data |-> <<>>]
                /\ progress_tracker' = ProgressTracker(Len(station_ids))
                /\ pc' = "loop"
                /\ UNCHANGED <<outcome, err, result>>

\* Lines 587-599: one iteration of the loop over station_ids; shape.geometry
\* .iloc[0] raises IndexError for a shape without geometries.
filter_data_within_shape_iteration ==
    /\ Running("filter_data_within_shape")
    /\ pc = "loop"
    /\ loc.i <= Len(loc.station_ids)
    /\ LET station_id == loc.station_ids[loc.i]
           station_data == select_station(loc.df.rows, station_id)
           point == Point(station_data[1].lon, station_data[1].lat)
       IN IF args.shape = <<>>
          THEN /\ except_Exception(progress_tracker, filter_shape_prefix,
                    Exc("IndexError", "single positional indexer is out-of-bounds"))
               /\ pc' = "done"
               /\ UNCHANGED loc
          ELSE /\ loc' = [loc EXCEPT !.i = @ + 1,
                              !.filtered_data =
                                  IF point_within(point, args.shape[1])
                                  THEN Append(@, station_data) ELSE @]
               /\ progress_tracker' = tracker_update(progress_tracker, 1)
               /\ UNCHANGED <<pc, outcome, err, result>>
    /\ UNCHANGED <<fn, args, args0>>

\* Lines 602-607: the retained stations' rows, or an empty table; return.
filter_data_within_shape_return ==
    /\ Running("filter_data_within_shape")
    /\ pc = "loop"
    /\ loc.i > Len(loc.station_ids)
    /\ return(IF loc.filtered_data # <<>>
              THEN [columns |-> loc.df.columns, rows |-> concat(loc.filtered_data)]
              ELSE [columns |-> <<>>, rows |-> <<>>])
    /\ pc' = "done"
    /\ UNCHANGED <<fn, args, args0, loc, progress_tracker>>

Next ==
    \/ Call_update_coordinates
    \/ update_coordinates_iteration
    \/ update_coordinates_return
    \/ Call_update_coordinates_Dataset
    \/ update_coordinates_Dataset_iteration
    \/ update_coordinates_Dataset_return
    \/ Call_convert_hourly_to_daily
    \/ convert_hourly_to_daily_iteration
    \/ convert_hourly_to_daily_return
    \/ Call_filter_stations
    \/ filter_stations_step1
    \/ filter_stations_step2
    \/ Call_extract_stations_in_basin
    \/ extract_stations_in_basin_step1
    \/ extract_stations_in_basin_step2
    \/ extract_stations_in_basin_step3
    \/ Call_spatial_join
    \/ spatial_join_step1
    \/ spatial_join_step2
    \/ spatial_join_step3
    \/ spatial_join_step4
    \/ Call_assess_data_availability
    \/ assess_data_availability_step1
    \/ assess_data_availability_step2
    \/ assess_data_availability_step3
    \/ Call_preprocess_swe
    \/ preprocess_swe_step1
    \/ preprocess_swe_step2
    \/ preprocess_swe_step3
    \/ preprocess_swe_step4
    \/ Call_preprocess_precip
    \/ preprocess_precip_step1
    \/ preprocess_precip_step2
    \/ preprocess_precip_step3
    \/ preprocess_precip_step4
    \/ Call_convert_to_geodataframe
    \/ convert_to_geodataframe_step1
    \/ convert_to_geodataframe_step2
    \/ convert_to_geodataframe_step3
    \/ Call_filter_data_within_shape
    \/ filter_data_within_shape_iteration
    \/ filter_data_within_shape_return

Spec == Init /\ [][Next]_vars

(***************************************************************************)
(* Claims.                                                                 *)
(***************************************************************************)

\* C1: after update_coordinates (table variant) returns, every row whose
\* station_id is absent from the coordinate-update table has the lat and lon it
\* had before the call, and every row whose station_id is present has lat equal
\* to that entry's New_Lat and lon equal to that entry's New_Lon; the table
\* returned is the caller's own table.
C1_update_coordinates_table ==
    (fn = "update_coordinates" /\ outcome = "returned" /\ args0.data.kind = "DataFrame") =>
        LET before == args0.data.rows
            after == args.data.rows
            cdf == args0.coordinates_df
        IN /\ result.val = args.data
           /\ Len(after) = Len(before)
           /\ \A i \in Idx(before) :
                /\ after[i].station_id = before[i].station_id
                /\ (\A e \in Idx(cdf) : cdf[e].station_id # before[i].station_id)
                      => after[i].lat = before[i].lat /\ after[i].lon = before[i].lon
                /\ \A e \in Idx(cdf) : cdf[e].station_id = before[i].station_id
                      => after[i].lat = cdf[e].New_Lat /\ after[i].lon = cdf[e].New_Lon

\* A returned call on a table with a station that is in the coordinate-update
\* table (and was moved) and a station that is not.
C1_witness ==
    /\ fn = "update_coordinates" /\ outcome = "returned" /\ args0.data.kind = "DataFrame"
    /\ \E i, j \in Idx(args0.data.rows) :
        /\ \E e \in Idx(args0.coordinates_df) :
              args0.coordinates_df[e].station_id = args0.data.rows[i].station_id
        /\ args.data.rows[i] # args0.data.rows[i]
        /\ \A e \in Idx(args0.coordinates_df) :
              args0.coordinates_df[e].station_id # args0.data.rows[j].station_id


\* The rows of a table that carry station sid.
rows_of(rows, sid) == {i \in Idx(rows) : rows[i].station_id = sid}
days_of(rows, sid) == {rows[i].day : i \in rows_of(rows, sid)}
hourly_returned == fn = "convert_hourly_to_daily" /\ outcome = "returned"

\* C2 (as stated): after convert_hourly_to_daily returns, the number of output
\* rows carrying a station_id equals the number of distinct calendar days that
\* occur in that station's input rows.
C2_rows_equal_distinct_days ==
    hourly_returned =>
        \A sid \in StationIds :
            Cardinality(rows_of(result.val.rows, sid))
                = Cardinality(days_of(args0.df.rows, sid))

\* C2 (amended): after convert_hourly_to_daily returns, every station of the
\* input has exactly one output row for every calendar day from its first to
\* its last observed day, so the number of its rows is last - first + 1; a day in
\* that range without observations has a row whose value is NaN, a day with
\* observations a row whose value is not NaN; stations not in the input have no
\* row.
C2_rows_cover_day_range ==
    hourly_returned =>
        \A sid \in StationIds :
            LET in_days == days_of(args0.df.rows, sid)
                out == result.val.rows
                out_rows == rows_of(out, sid)
            IN IF in_days = {} THEN out_rows = {}
               ELSE LET first == CHOOSE d \in in_days : \A e \in in_days : d <= e
                        last == CHOOSE d \in in_days : \A e \in in_days : d >= e
                    IN /\ Cardinality(out_rows) = last - first + 1
                       /\ \A d \in first..last :
                            \E i \in out_rows :
                                /\ out[i].time = [day |-> d, hour |-> 0]
                                /\ out[i].value.nan <=> d \notin in_days
                                /\ \A j \in out_rows : out[j].time.day = d => j = i

\* A returned call for a station observed on days 1 and 3 only: the output has
\* a NaN row for day 2.
C2_witness ==
    /\ hourly_returned
    /\ \E sid \in StationIds :
        /\ days_of(args0.df.rows, sid) = {1, 3}
        /\ \E i \in rows_of(result.val.rows, sid) :
            result.val.rows[i].time.day = 2 /\ result.val.rows[i].value.nan


\* C3 (as stated): filter_stations on a flat table without a station_id column
\* ends in the missing-column validation error itself (a ValueError, not a
\* wrapped generic runtime error) and returns nothing.
C3_missing_column_raises_validation_error ==
    (/\ fn = "filter_stations" /\ outcome # "none"
     /\ args0.data.kind = "DataFrame" /\ "station_id" \notin args0.data.columns)
        => /\ outcome = "raised"
           /\ err.type = "ValueError"
           /\ ~err.wrapped
           /\ ~result.has

extract_finished == fn = "extract_stations_in_basin" /\ outcome # "none"
extract_returned == fn = "extract_stations_in_basin" /\ outcome = "returned"
no_basin_matches ==
    \A k \in Idx(args0.basin_shapefile) : args0.basin_shapefile[k].Station_ID # args0.basin_id

\* C4 (as stated): when no basin polygon has Station_ID equal to basin_id,
\* extract_stations_in_basin fails with the raw index error of the first-match
\* lookup, not caught and re-raised as another kind of error, and returns nothing.
C4_no_match_raises_raw_index_error ==
    (extract_finished /\ no_basin_matches)
        => /\ outcome = "raised"
           /\ err.type = "IndexError"
           /\ ~err.wrapped
           /\ ~result.has

\* C4 (amended): when no basin polygon has Station_ID equal to basin_id, the
\* index error of the first-match lookup is caught by the function's handler:
\* the tracker is closed and the call fails with a RuntimeError that carries the
\* index error's message; nothing is returned.
C4_no_match_raises_wrapped_index_error ==
    (extract_finished /\ no_basin_matches)
        => /\ outcome = "raised"
           /\ err.type = "RuntimeError"
           /\ err.wrapped
           /\ err.original = "IndexError"
           /\ err.msg = "single positional indexer is out-of-bounds"
           /\ progress_tracker.closed
           /\ ~result.has

\* A failed call on a basin collection that has polygons, none of them the
\* requested one.
C4_witness ==
    /\ extract_finished
    /\ no_basin_matches
    /\ args0.basin_shapefile # <<>>
    /\ outcome = "raised"

\* C5: for every call of extract_stations_in_basin that returns, the second
\* returned element is the integer 0 when buffer_km = 0 and a geometry object,
\* not 0, when buffer_km > 0.
C5_second_element_by_buffer ==
    extract_returned =>
        /\ args0.buffer_km = 0 => result.val[2] = IntZero
        /\ args0.buffer_km > 0 => /\ result.val[2].type = "GeoSeries"
                                  /\ result.val[2] # IntZero
                                  /\ result.val[2].geoms # <<>>

\* A returned call with a positive buffer: the second element is the buffered
\* polygon, back in the geographic CRS.
C5_witness ==
    /\ extract_returned
    /\ args0.buffer_km > 0
    /\ result.val[2].type = "GeoSeries"
    /\ result.val[2].crs = 4326
    /\ \E k \in Idx(result.val[2].geoms) :
          result.val[2].geoms[k].lo < 0 \/ result.val[2].geoms[k].hi > 3

\* The test polygon of a call: the first polygon whose Station_ID is basin_id,
\* widened by buffer_km kilometres on each side when buffer_km > 0.
test_polygon ==
    LET first == CHOOSE k \in Idx(args0.basin_shapefile) :
                    /\ args0.basin_shapefile[k].Station_ID = args0.basin_id
                    /\ \A j \in 1..(k - 1) : args0.basin_shapefile[j].Station_ID # args0.basin_id
        g == args0.basin_shapefile[first].geometry
    IN IF args0.buffer_km > 0
       THEN [lo |-> g.lo - args0.buffer_km, hi |-> g.hi + args0.buffer_km]
       ELSE g
strictly_inside(x, g) == g.lo < x /\ x < g.hi

\* C6: for every call of extract_stations_in_basin that returns, the returned
\* stations are exactly the input stations whose point lies strictly inside the
\* test polygon, each once and in input order, and every returned row has basin
\* equal to basin_id.
C6_stations_within_test_polygon ==
    extract_returned =>
        LET out == result.val[1]
            inside == {i \in Idx(args0.stations) : strictly_inside(args0.stations[i].x, test_polygon)}
        IN /\ Len(out) = Cardinality(inside)
           /\ \A i \in inside : \E k \in Idx(out) :
                 out[k].station_id = args0.stations[i].station_id /\ out[k].x = args0.stations[i].x
           /\ \A k \in Idx(out) :
                 /\ out[k].basin = args0.basin_id
                 /\ strictly_inside(out[k].x, test_polygon)
                 /\ \E i \in inside : args0.stations[i].station_id = out[k].station_id
           /\ \A k, l \in Idx(out) : k < l => out[k].station_id < out[l].station_id

\* A returned call with a buffer in which one station is inside only because of
\* the buffer and another lies on the buffered boundary and is left out.
C6_witness ==
    /\ extract_returned
    /\ args0.buffer_km > 0
    /\ \E i, j \in Idx(args0.stations) :
        /\ \E k \in Idx(result.val[1]) : result.val[1][k].station_id = i
        /\ ~within(args0.stations[i].x, loc.basin_geom)
        /\ \A k \in Idx(result.val[1]) : result.val[1][k].station_id # j
        /\ args0.stations[j].x = test_polygon.lo


join_finished == fn = "spatial_join" /\ outcome # "none"
join_violation ==
    \/ \E i \in Idx(args0.points_gdf.geometry) : args0.points_gdf.geometry[i].type # "Point"
    \/ \E i \in Idx(args0.polygons_gdf.geometry) :
          args0.polygons_gdf.geometry[i].type \notin {"Polygon", "MultiPolygon"}
    \/ args0.points_gdf.crs # args0.polygons_gdf.crs
join_executed == \E k \in Idx(loc.ops) : loc.ops[k] = "sjoin"
IsPrefix(s, t) == Len(s) <= Len(t) /\ \A k \in Idx(s) : s[k] = t[k]

\* C9: in spatial_join, if the first collection has a geometry that is not a
\* point, or the second a geometry that is not a polygon or multipolygon, or
\* the CRS tags differ, the call fails and the join is never executed; the
\* operations run in the order point check, polygon check, CRS check, join, so
\* the join runs only after the three checks have passed.
C9_join_only_after_checks ==
    fn = "spatial_join" =>
        /\ IsPrefix(loc.ops, <<"check_points", "check_polygons", "check_crs", "sjoin">>)
        /\ join_violation => ~join_executed /\ outcome # "returned"
        /\ (join_finished /\ join_violation) => outcome = "raised" /\ ~result.has
        /\ join_executed => ~join_violation
        /\ outcome = "returned" => join_executed
        \* the first failing check, in that order, is the one reported
        /\ (join_finished /\ join_violation) =>
              err.msg = IF ~all_points(args0.points_gdf.geometry)
                        THEN "points_gdf must contain only Point geometries"
                        ELSE IF \E i \in Idx(args0.polygons_gdf.geometry) :
                                  args0.polygons_gdf.geometry[i].type \notin {"Polygon", "MultiPolygon"}
                        THEN "polygons_gdf must contain only Polygon or MultiPolygon geometries"
                        ELSE "Coordinate systems of points and polygons must match"

\* A call that failed at the polygon check with matching CRS tags and valid
\* points: the join was not run.
C9_witness ==
    /\ join_finished
    /\ outcome = "raised"
    /\ all_points(args0.points_gdf.geometry)
    /\ args0.points_gdf.geometry # <<>>
    /\ args0.points_gdf.crs = args0.polygons_gdf.crs
    /\ loc.ops = <<"check_points", "check_polygons">>
    /\ err.msg = "polygons_gdf must contain only Polygon or MultiPolygon geometries"


\* The float x is the integer k.
equals_integer(x, k) ==
    ~x.nan /\ x.m * 2^(IF x.e > 0 THEN x.e ELSE 0) = k * 2^(IF x.e < 0 THEN -x.e ELSE 0)

availability_returned == fn = "assess_data_availability" /\ outcome = "returned"

\* C10: for every dataset with a non-empty time dimension, the availability
\* assess_data_availability returns for a station is (number of non-missing
\* observations / number of time points) * 100: exactly 100 when none of the
\* station's observations is missing, exactly 0 when all are, and in every case
\* between 0 and 100.
C10_availability_percentage ==
    (availability_returned /\ args0.data.n_time > 0) =>
        \A s \in 1..args0.data.n_station :
            LET series == args0.data.obs[s]
                n == args0.data.n_time
                present == {t \in 1..n : series[t] # NaN}
                a == result.val[s]
                \* a = 100 * count / n up to the two roundings, as 2^-a.e multiples
                scale == 2^(IF a.e < 0 THEN -a.e ELSE 0)
                value == a.m * 2^(IF a.e > 0 THEN a.e ELSE 0)
                exact == Cardinality(present) * 100 * scale
                diff == IF value * n >= exact THEN value * n - exact ELSE exact - value * n
            IN /\ ~a.nan
               /\ diff * 2^(FloatBits - 2) <= exact
               /\ present = 1..n => equals_integer(a, 100)
               /\ present = {} => equals_integer(a, 0)
               /\ 0 <= a.m /\ value <= 100 * scale

\* A returned call on a dataset with two time points in which one station has
\* no missing observation, and another none that is present.
C10_witness ==
    /\ availability_returned
    /\ args0.data.n_time = 2
    /\ \E s, r \in 1..args0.data.n_station :
        /\ \A t \in 1..2 : args0.data.obs[s][t] # NaN
        /\ \A t \in 1..2 : args0.data.obs[r][t] = NaN
        /\ equals_integer(result.val[s], 100)
        /\ equals_integer(result.val[r], 0)


\* C7 (as stated): update_coordinates is the only pipeline function that
\* changes a caller-owned input: during and after a call of any other function
\* (filter_stations, convert_hourly_to_daily, filter_data_within_shape,
\* assess_data_availability, preprocess_swe, preprocess_precip, ...) the
\* caller's inputs are as they were passed, the time column of the table passed
\* to convert_hourly_to_daily included.
C7_only_update_coordinates_mutates ==
    fn \notin {"idle", "update_coordinates"} => args = args0

\* The exceptions the functions raise themselves to reject their arguments.
validation_messages ==
    {"DataFrame does not contain 'station_id' column",
     "Data must be a pandas DataFrame or xarray Dataset",
     "DataFrame must contain 'lon' and 'lat' columns",
     "points_gdf must contain only Point geometries",
     "polygons_gdf must contain only Polygon or MultiPolygon geometries",
     "Coordinate systems of points and polygons must match"}

\* C8 (as stated): in every pipeline function that uses a progress tracker, an
\* exception other than a precondition violation, wherever in the function body
\* it arises (the steps before the per-station loops included), is caught, the
\* tracker is closed, and a RuntimeError carrying the original message is
\* raised; nothing is returned.
C8_every_exception_is_wrapped ==
    (outcome = "raised" /\ err.msg \notin validation_messages) =>
        /\ err.type = "RuntimeError"
        /\ err.wrapped
        /\ progress_tracker.created /\ progress_tracker.closed
        /\ ~result.has

prefix_of(f) ==
    CASE f = "preprocess_swe" -> preprocess_swe_prefix
      [] f = "preprocess_precip" -> preprocess_precip_prefix
      [] f = "extract_stations_in_basin" -> extract_prefix
      [] f = "filter_stations" -> filter_stations_prefix
      [] f = "assess_data_availability" -> availability_prefix
      [] f = "convert_to_geodataframe" -> geodataframe_prefix
      [] f = "spatial_join" -> spatial_join_prefix
      [] f = "update_coordinates" -> update_coordinates_prefix
      [] f = "filter_data_within_shape" -> filter_shape_prefix
      [] f = "convert_hourly_to_daily" -> hourly_to_daily_prefix

\* The statements that precede the try block and can raise: the lookup table
\* and the type dispatch of update_coordinates, the station_id column of
\* filter_data_within_shape, the time conversion of convert_hourly_to_daily.
raises_before_try ==
    \/ /\ fn = "update_coordinates"
       /\ \/ args0.data.kind = "other"
          \/ \E i, j \in Idx(args0.coordinates_df) :
                i # j /\ args0.coordinates_df[i].station_id = args0.coordinates_df[j].station_id
    \/ /\ fn = "filter_data_within_shape"
       /\ args0.dataset.dim = "station_id"
    \/ /\ fn = "convert_hourly_to_daily"
       /\ args0.df.time_dtype = "str_unparseable" /\ args0.df.rows # <<>>

\* C8 (amended): an exception raised by a statement inside the try block of a
\* pipeline function, the function's own validation errors included, is caught:
\* the tracker is closed and a RuntimeError with the function's prefix and the
\* original message is raised, and nothing is returned.  An exception raised by
\* a statement before the try block (the steps before the per-station loop of
\* update_coordinates, filter_data_within_shape and convert_hourly_to_daily)
\* reaches the caller as raised: no tracker exists yet and none is closed.  A
\* tracker is closed only by the handler.
C8_exceptions_inside_try_are_wrapped ==
    /\ outcome = "raised" =>
        /\ ~result.has
        /\ IF raises_before_try
           THEN /\ ~err.wrapped
                /\ err.type \in {"ValueError", "KeyError", "TypeError"}
                /\ ~progress_tracker.created /\ ~progress_tracker.closed
           ELSE /\ err.type = "RuntimeError" /\ err.wrapped
                /\ err.prefix = prefix_of(fn)
                /\ err.original \in {"ValueError", "KeyError", "TypeError",
                                     "IndexError", "AttributeError"}
                /\ progress_tracker.created /\ progress_tracker.closed
                /\ progress_tracker.n <= progress_tracker.total
    /\ (fn # "idle" /\ raises_before_try) => outcome = "raised"
    /\ progress_tracker.closed => outcome = "raised"
    \* the original message is the one carried
    /\ (fn = "extract_stations_in_basin" /\ outcome = "raised")
          => err.msg = "single positional indexer is out-of-bounds" /\ err.original = "IndexError"
    /\ (fn = "convert_hourly_to_daily" /\ outcome = "raised" /\ ~raises_before_try)
          => \/ (args0.df.rows = <<>> /\ err.msg = "No objects to concatenate")
             \/ (args0.value_col = "absent_column" /\ err.msg = "Column not found")

\* A call of convert_hourly_to_daily that failed inside the loop, after the
\* tracker was created: the error is wrapped and the tracker closed.
C8_witness ==
    /\ fn = "convert_hourly_to_daily"
    /\ outcome = "raised"
    /\ err.wrapped /\ err.original = "KeyError"
    /\ progress_tracker.closed
    /\ progress_tracker.n < progress_tracker.total


\* The number of rows of the table a dataset converts to.
n_rows_of(ds) == IF "n_time" \in DOMAIN ds THEN ds.n_time * ds.n_station ELSE ds.n_station

\* The table has the two metadata columns, holding the given source and "mm"
\* in every row.
tagged(df, source) ==
    /\ in_columns("data_source", df) /\ in_columns("units", df)
    /\ \A k \in Idx(df.rows) :
        df.rows[k].data_source = source /\ df.rows[k].units = "mm"

\* C11: a call of preprocess_swe on a dataset returns, and the table it returns
\* has one row per combination of the dataset's labels, each with data_source =
\* "SWE" and units = "mm"; a returned call of preprocess_precip likewise has
\* data_source = "Precipitation" and units = "mm" on every row; both whether the
\* intermediate table had a composite index (flattened) or a simple one.
C11_metadata_on_every_row ==
    /\ (fn = "preprocess_swe" /\ pc = "done" /\ args0.swe_data.kind = "Dataset") =>
        /\ outcome = "returned"
        /\ Len(result.val.rows) = n_rows_of(args0.swe_data.ds)
        /\ tagged(result.val, "SWE")
    /\ (fn = "preprocess_precip" /\ pc = "done" /\ args0.precip_data.kind = "Dataset"
            /\ args0.precip_data.time_dtype # "str_unparseable") =>
        outcome = "returned"
    /\ (fn = "preprocess_precip" /\ outcome = "returned") =>
        /\ Len(result.val.rows) = n_rows_of(args0.precip_data.ds)
        /\ tagged(result.val, "Precipitation")

\* preprocess_swe has returned a table of several rows whose composite index
\* (time, station_id) was flattened into columns.
C11_witness ==
    /\ fn = "preprocess_swe" /\ outcome = "returned"
    /\ result.val.index = <<>>
    /\ in_columns("time", result.val) /\ in_columns("station_id", result.val)
    /\ Len(result.val.rows) >= 2
    /\ tagged(result.val, "SWE")


\* The values of a coordinate array that belong to the k-th station.
station_cells(arr, dims, k) ==
    IF Len(dims) = 1 THEN <<arr[k]>>
    ELSE IF dims[1] = "station_id" THEN arr[k]
    ELSE [a \in Idx(arr) |-> arr[a][k]]

array_variant_returned ==
    fn = "update_coordinates" /\ outcome = "returned" /\ args0.data.kind = "Dataset"

\* After a returned call of the array variant on the dataset: the lat/lon
\* values of every station in the coordinate table are that station's
\* replacement values, those of every other station are as they were, and the
\* dataset returned is the caller's.
array_coordinates_updated ==
    /\ result.val = args.data
    /\ \A k \in Idx(args0.data.station_ids) :
        LET sid == args0.data.station_ids[k]
            dims == args0.data.dims
            lat == station_cells(args.data.lat, dims, k)
            lon == station_cells(args.data.lon, dims, k)
            entries == {j \in Idx(args0.coordinates_df) :
                            args0.coordinates_df[j].station_id = sid}
        IN IF entries # {}
           THEN \A j \in entries :
                   /\ \A c \in Idx(lat) : lat[c] = args0.coordinates_df[j].New_Lat
                   /\ \A c \in Idx(lon) : lon[c] = args0.coordinates_df[j].New_Lon
           ELSE /\ lat = station_cells(args0.data.lat, dims, k)
                /\ lon = station_cells(args0.data.lon, dims, k)

\* C12 (as stated): whenever update_coordinates returns from a call on a
\* dataset with one- or two-dimensional lat/lon arrays, every lat/lon value of
\* a station in the coordinate table is the replacement value and every value
\* of a station not in the table is unchanged, whichever of the two dimensions
\* is station_id, and the returned dataset is the one passed in.
C12_array_variant_updates_stations ==
    array_variant_returned => array_coordinates_updated


shape_filter_returned == fn = "filter_data_within_shape" /\ outcome = "returned"

\* The records of station s in a table, in order.
records_of(rows, s) == SelectSeq(rows, LAMBDA r : r.station_id = s)

\* The first record of station s lies strictly inside the first geometry of the
\* shape.
first_record_inside(records, shape, s) ==
    LET first == records_of(records, s)[1]
        box == shape[1]
    IN /\ box.xlo < first.lon /\ first.lon < box.xhi
       /\ box.ylo < first.lat /\ first.lat < box.yhi

n_distinct_stations(records) ==
    Cardinality({records[k].station_id : k \in Idx(records)})

\* The total a function declares when it creates its tracker.
declared_total ==
    CASE fn \in {"preprocess_swe", "preprocess_precip", "spatial_join"} -> 4
      [] fn \in {"extract_stations_in_basin", "assess_data_availability",
                 "convert_to_geodataframe"} -> 3
      [] fn = "filter_stations" -> 2
      [] fn = "update_coordinates" ->
            IF args0.data.kind = "Dataset" THEN Len(args0.data.station_ids)
            ELSE n_distinct_stations(args0.data.rows)
      [] fn = "filter_data_within_shape" -> n_distinct_stations(args0.dataset.records)
      [] fn = "convert_hourly_to_daily" -> n_distinct_stations(args0.df.rows)

\* C14: in every reachable state of every pipeline function the steps reported
\* to the progress tracker do not exceed its declared total; in every state
\* after a successful return they equal it, the total being 4 for the
\* preprocessors and spatial_join, 3 for extract_stations_in_basin,
\* assess_data_availability and convert_to_geodataframe, 2 for filter_stations
\* and the number of distinct stations for update_coordinates,
\* filter_data_within_shape and convert_hourly_to_daily; and the tracker is
\* closed only when the call has failed.
C14_progress_accounting ==
    /\ progress_tracker.n <= progress_tracker.total
    /\ progress_tracker.created => progress_tracker.total = declared_total
    /\ outcome = "returned" =>
        /\ progress_tracker.created
        /\ progress_tracker.n = declared_total
        /\ ~progress_tracker.closed
    /\ progress_tracker.closed => outcome = "raised"

\* filter_data_within_shape has returned from data with two stations of which
\* exactly one was retained, and two steps have been reported.
C14_witness ==
    /\ shape_filter_returned
    /\ n_distinct_stations(args0.dataset.records) = 2
    /\ Len(result.val.rows) = 1
    /\ progress_tracker.n = 2 /\ progress_tracker.total = 2
    /\ ~progress_tracker.closed

====
